---------------------------- MODULE Spec2Model ----------------------------
(***************************************************************************)
(* A model of atm_machine.c: the console ATM (accounts, note inventory,     *)
(* transaction journal, login with lock-out, withdrawal with the           *)
(* denomination solver, administrative refill and unlock).                 *)
(*                                                                         *)
(* Units.  Account balances are C doubles holding rupees with two          *)
(* decimals; the model holds them as integers in paise (hundredths of a    *)
(* rupee).  The amount typed at the withdrawal prompt is a double too and  *)
(* is held in hundredths as well, so that 100.50 is the number 10050.      *)
(* Withdrawal amounts after the (int) conversion are whole rupees, as in   *)
(* the code.                                                               *)
(*                                                                         *)
(* Steps.  The program is single threaded and blocks on input; one action  *)
(* of the model is the code that runs between two reads of the input,      *)
(* except that withdrawCash is cut finer: a rejected request stops at the  *)
(* message it prints before it returns, and the commit is split into its   *)
(* debits, its journal append and its two saves.  showBalance is cut in    *)
(* two as well: what it prints, then its journal append.                   *)
(*                                                                         *)
(* Storage.  saveAccounts, saveATM and recordTransaction test fopen and     *)
(* give up when it fails; whether the files can be opened for writing is   *)
(* a condition of the run (writable), fixed when the program starts.       *)
(***************************************************************************)
EXTENDS Integers, Sequences, FiniteSets

VARIABLES
    accounts,   \* Account *accounts: index -> record (the in-memory table)
    atm,        \* ATM atm: the in-memory note inventory
    accFile,    \* contents of accounts.txt: one text record per account
    atmFile,    \* contents of atm.txt: the four counts
    txnFile,    \* contents of transactions.txt: the journal, oldest first
    pc,         \* where the program is waiting for input
    accIndex,   \* main's accIndex / login's idx: the account being served
    w,          \* withdrawCash's locals while a withdrawal is in progress
    writable,   \* whether fopen(..., "w") and fopen(..., "a") succeed
    solve       \* a single call of calculateDenominations (SolverSpec only)

vars == <<accounts, atm, accFile, atmFile, txnFile, pc, accIndex, w,
          writable, solve>>

-----------------------------------------------------------------------------
(* Bounds of the model *)

\* most notes the model lets the inventory hold, all denominations together
\* (a single call of the solver: most notes of each denomination)
MaxNotes == 4
\* most records the model lets a run append to the journal
MaxTxn == 1
\* a single call of the solver is given amounts up to this many hundreds
MaxHundreds == 30

(* Program constants *)
ADMIN_PIN == 999999
LockThreshold == 3

-----------------------------------------------------------------------------
(* C integer arithmetic *)

IntMax == 2147483647
IntMin == (-2147483647) - 1

\* a / b of C for b > 0: the quotient truncated toward zero
CDiv(a, b) ==
    IF a >= 0 THEN a \div b
    ELSE (a \div b) + (IF a % b = 0 THEN 0 ELSE 1)

\* a % b of C for b > 0: the remainder has the sign of a
CRem(a, b) ==
    IF a >= 0 THEN a % b
    ELSE IF a % b = 0 THEN 0 ELSE (a % b) - b

-----------------------------------------------------------------------------
(* The denomination solver: calculateDenominations *)

Inventory(a, b, c, d) == [note2000 |-> a, note500 |-> b, note200 |-> c, note100 |-> d]

\* the rupee value of a set of notes, given as counts of 2000, 500, 200, 100
NotesValue(a, b, c, d) == 2000 * a + 500 * b + 200 * c + 100 * d

\* one greedy step with the cap dropped (mutant of Use)
UseUncapped(remaining, denom, avail) == CDiv(remaining, denom)

\* use = remaining / denom; if (use > available) use = available;
Use(remaining, denom, avail) ==
    IF CDiv(remaining, denom) > avail THEN avail ELSE CDiv(remaining, denom)

\* the greedy pass taking the 200-notes before the 500-notes (mutant of
\* Greedy)
GreedyWrongOrder(amount, inv) ==
    LET u1 == Use(amount, 2000, inv.note2000)
        r1 == amount - u1 * 2000
        u3 == Use(r1, 200, inv.note200)
        r2 == r1 - u3 * 200
        u2 == Use(r2, 500, inv.note500)
        r3 == r2 - u2 * 500
        u4 == Use(r3, 100, inv.note100)
        r4 == r3 - u4 * 100
    IN  [n2000 |-> u1, n500 |-> u2, n200 |-> u3, n100 |-> u4, remaining |-> r4]

\* the greedy pass, lines 347-371: the four counts and what is left over
Greedy(amount, inv) ==
    LET u1 == Use(amount, 2000, inv.note2000)
        r1 == amount - u1 * 2000
        u2 == Use(r1, 500, inv.note500)
        r2 == r1 - u2 * 500
        u3 == Use(r2, 200, inv.note200)
        r3 == r2 - u3 * 200
        u4 == Use(r3, 100, inv.note100)
        r4 == r3 - u4 * 100
    IN  [n2000 |-> u1, n500 |-> u2, n200 |-> u3, n100 |-> u4, remaining |-> r4]

\* the test of the innermost loop with the divisibility test dropped (mutant)
BacktrackAcceptsNoRem(amount, inv, r2000, r500, r200) ==
    LET rem == amount - (r2000 * 2000 + r500 * 500 + r200 * 200)
    IN  /\ rem >= 0
        /\ CDiv(rem, 100) <= inv.note100

\* the body of the innermost backtracking loop, lines 388-392: does the
\* candidate (r2000, r500, r200) reach "solution found"
BacktrackAccepts(amount, inv, r2000, r500, r200) ==
    LET rem == amount - (r2000 * 2000 + r500 * 500 + r200 * 200)
    IN  /\ rem >= 0
        /\ CRem(rem, 100) = 0
        /\ CDiv(rem, 100) <= inv.note100

\* the order in which the nested loops visit candidates: r2000 outermost,
\* every counter counting down
VisitedBefore(c, d) ==
    \/ c[1] > d[1]
    \/ c[1] = d[1] /\ c[2] > d[2]
    \/ c[1] = d[1] /\ c[2] = d[2] /\ c[3] > d[3]

\* the loops counting down from the inventory's counts instead of the greedy
\* counts (mutant of BacktrackHits)
BacktrackHitsFromInventory(amount, inv, g) ==
    { c \in (0 .. inv.note2000) \X (0 .. inv.note500) \X (0 .. inv.note200) :
          BacktrackAccepts(amount, inv, c[1], c[2], c[3]) }

\* the nested loops of lines 385-403, entered with *possible == 0: the
\* candidates they accept, from the greedy counts down to 0
BacktrackHits(amount, inv, g) ==
    { c \in (0 .. g.n2000) \X (0 .. g.n500) \X (0 .. g.n200) :
          BacktrackAccepts(amount, inv, c[1], c[2], c[3]) }

\* the solver with line 374 forgotten: a greedy success leaves *possible as
\* it was (mutant of calculateDenominations)
calculateDenominationsKeepsFlag(amount, inv, possible0) ==
    LET g == Greedy(amount, inv)
    IN  [n2000 |-> g.n2000, n500 |-> g.n500, n200 |-> g.n200, n100 |-> g.n100,
         possible |-> IF g.remaining = 0 THEN possible0 ELSE 0]

\* calculateDenominations(amount, atm, &n2000, &n500, &n200, &n100, &possible)
\* possible0 is the value *possible holds on entry: the loops read it at
\* line 385 before the function has written it.
calculateDenominations(amount, inv, possible0) ==
    LET g == Greedy(amount, inv)
        hits == BacktrackHits(amount, inv, g)
    IN  IF g.remaining = 0
        THEN [n2000 |-> g.n2000, n500 |-> g.n500, n200 |-> g.n200,
              n100 |-> g.n100, possible |-> 1]
        ELSE IF possible0 = 0 /\ hits # {}
        THEN LET c == CHOOSE x \in hits :
                          \A y \in hits \ {x} : VisitedBefore(x, y)
                 rem == amount - (c[1] * 2000 + c[2] * 500 + c[3] * 200)
             IN  [n2000 |-> c[1], n500 |-> c[2], n200 |-> c[3],
                  n100 |-> CDiv(rem, 100), possible |-> 1]
        ELSE [n2000 |-> g.n2000, n500 |-> g.n500, n200 |-> g.n200,
              n100 |-> g.n100, possible |-> 0]

-----------------------------------------------------------------------------
(* The records kept in memory and their text forms in the three files *)

AccIdx == {0, 1}

\* the table loadAccounts has read from accounts.txt: the account numbers and
\* PINs of the two first sample accounts of lines 560-561, unlocked with no
\* failed attempt, holding 700.50 and 100.00 (balances that withdrawals
\* within the bounds can empty)
InitAccounts ==
    [i \in AccIdx |->
        IF i = 0
        THEN [accountNumber |-> 1001, pin |-> 1234, balance |-> 70050,
              loginAttempts |-> 0, locked |-> 0]
        ELSE [accountNumber |-> 1002, pin |-> 2345, balance |-> 10000,
              loginAttempts |-> 0, locked |-> 0]]

NoIdx == -1

\* findAccountIndex: the first index holding accNum, or -1
findAccountIndex(accNum) ==
    IF \E i \in AccIdx : accounts[i].accountNumber = accNum
    THEN CHOOSE i \in AccIdx :
            /\ accounts[i].accountNumber = accNum
            /\ \A j \in AccIdx : accounts[j].accountNumber = accNum => i <= j
    ELSE NoIdx

\* printf("%.2f") of a two-decimal amount held in hundredths: the sign, the
\* digits before the point and the two digits after it
Fmt2(v) ==
    IF v >= 0 THEN [neg |-> FALSE, int |-> v \div 100, frac |-> v % 100]
    ELSE [neg |-> TRUE, int |-> (0 - v) \div 100, frac |-> (0 - v) % 100]

\* scanf("%lf") of that text: the amount in hundredths again
Parse2(t) ==
    IF t.neg THEN 0 - (t.int * 100 + t.frac) ELSE t.int * 100 + t.frac

\* one line of accounts.txt, the fprintf of line 189 (the name is left out:
\* no operation reads or changes it)
AccountLine(a) ==
    [accountNumber |-> a.accountNumber, pin |-> a.pin,
     balance |-> Fmt2(a.balance), loginAttempts |-> a.loginAttempts,
     locked |-> a.locked]

\* the whole of accounts.txt as saveAccounts writes it
AccountsText(accs) == [i \in AccIdx |-> AccountLine(accs[i])]

\* the line of atm.txt as saveATM writes it
AtmText(inv) == <<inv.note2000, inv.note500, inv.note200, inv.note100>>

\* the line recordTransaction appends (the timestamp is left out)
TxnLine(accNum, type, amount, remaining) ==
    [accountNumber |-> accNum, type |-> type, amount |-> Fmt2(amount),
     remainingBalance |-> Fmt2(remaining)]

\* fopen for writing or appending succeeds or fails as the storage allows
\* (a read-only directory, a full disk); on failure the three functions
\* below print an error and leave the file as it was.

\* recordTransaction opening the journal with "w" instead of "a" (mutant of
\* recordTransaction)
recordTransactionTruncating(line) == IF writable THEN << line >> ELSE txnFile

\* saveAccounts(ACC_FILE), lines 182-199: the file after the call
saveAccounts(accs) == IF writable THEN AccountsText(accs) ELSE accFile

\* saveATM(ATM_FILE), lines 227-236: the file after the call
saveATM(inv) == IF writable THEN AtmText(inv) ELSE atmFile

\* recordTransaction(&t), lines 239-248: the journal after the call
recordTransaction(line) == IF writable THEN Append(txnFile, line) ELSE txnFile

\* withdrawCash's locals, and the message it returns with ("none" while it
\* has not rejected the request); between withdrawals the frame is dead
NoWithdrawal ==
    [damount |-> [kind |-> "finite", v |-> 0], amount |-> 0,
     n2000 |-> 0, n500 |-> 0, n200 |-> 0, n100 |-> 0, possible |-> 0,
     reason |-> "none"]

NoSolve == [state |-> "idle"]

-----------------------------------------------------------------------------
(* Inputs *)

AccNumInputs == {1001, 1002, 4040}
PinInputs == {1234, 2345}
AdminPinInputs == {ADMIN_PIN, 1234}

\* what can be typed at the amount prompt (sscanf "%lf"): finite numbers, in
\* hundredths, "nan", and numbers beyond the range of int ("inf", 1e10)
Finite(v) == [kind |-> "finite", v |-> v]
DAmountInputs ==
    {Finite(v) : v \in {-10000, 0, 50, 10000, 10050, 60000, 80000}}
        \cup {[kind |-> "nan", v |-> 0], [kind |-> "huge", v |-> 0]}

RefillInputs == {-1, 0, 1}

\* the garbage an uninitialised int may hold, as far as the code tells the
\* values apart: zero or not
GarbageInts == {0, 1}

-----------------------------------------------------------------------------
(* Initial state: main has loaded (or created and saved) the accounts and   *)
(* the inventory, so the files agree with memory; transactions.txt, which  *)
(* main does not read, holds what an earlier run appended to it            *)

\* the journal an earlier run left: an inquiry on account 1001
OldJournal == << TxnLine(1001, "Balance Inquiry", 0, 70050) >>

\* the run may append another record: the model's bound on the journal
MayAppend == Len(txnFile) < Len(OldJournal) + MaxTxn

InitAtm == Inventory(0, 0, 0, 0)

Init ==
    /\ accounts = InitAccounts
    /\ atm = InitAtm
    /\ accFile = AccountsText(InitAccounts)
    /\ atmFile = AtmText(InitAtm)
    /\ txnFile = OldJournal
    /\ pc = "main"
    /\ accIndex = NoIdx
    /\ w = NoWithdrawal
    /\ writable \in BOOLEAN
    /\ solve = NoSolve

-----------------------------------------------------------------------------
(* login, lines 290-326 *)

\* the lock test with the test dropped (mutant of LoginRefused)
LoginRefusedNever(acc) == FALSE

\* line 300: if (acc->locked)
LoginRefused(acc) == acc.locked # 0

\* the attempts left counted from 4 (mutant of AttemptsLeft)
AttemptsLeftOfFour(loginAttempts) == (LockThreshold + 1) - loginAttempts

\* lines 304 and 315: attemptsLeft = 3 - acc->loginAttempts
AttemptsLeft(loginAttempts) == LockThreshold - loginAttempts

\* main menu choice 1 and login up to its first PIN prompt, lines 291-304:
\* an unknown or a locked account returns 0 to the main menu
LoginAccount(accNum) ==
    /\ pc = "main"
    /\ LET idx == findAccountIndex(accNum)
       IN  IF idx = NoIdx \/ LoginRefused(accounts[idx])
           THEN UNCHANGED <<pc, accIndex>>
           ELSE /\ pc' = "pin"
                /\ accIndex' = idx
    /\ UNCHANGED <<accounts, atm, accFile, atmFile, txnFile, w, writable, solve>>

\* the PIN loop with the return of line 322 forgotten: the account is locked
\* and saved and the loop asks again (mutant of LoginPin)
LoginPinLockKeepsAsking(pin) ==
    /\ pc = "pin"
    /\ LET acc == accounts[accIndex]
           failed == acc.loginAttempts + 1
       IN  IF pin = acc.pin
           THEN /\ accounts' = [accounts EXCEPT ![accIndex].loginAttempts = 0]
                /\ pc' = "user"
                /\ UNCHANGED <<accIndex, accFile>>
           ELSE IF AttemptsLeft(failed) > 0
           THEN /\ accounts' = [accounts EXCEPT ![accIndex].loginAttempts = failed]
                /\ UNCHANGED <<pc, accIndex, accFile>>
           ELSE /\ failed <= LockThreshold + 1
                /\ accounts' = [accounts EXCEPT ![accIndex].loginAttempts = failed,
                                                ![accIndex].locked = 1]
                /\ accFile' = saveAccounts(accounts')
                /\ UNCHANGED <<pc, accIndex>>
    /\ UNCHANGED <<atm, atmFile, txnFile, w, writable, solve>>

\* the PIN loop with the reset of line 309 forgotten (mutant of LoginPin)
LoginPinKeepsCounter(pin) ==
    /\ pc = "pin"
    /\ LET acc == accounts[accIndex]
           failed == acc.loginAttempts + 1
       IN  IF pin = acc.pin
           THEN /\ pc' = "user"
                /\ UNCHANGED <<accounts, accIndex, accFile>>
           ELSE IF AttemptsLeft(failed) > 0
           THEN /\ accounts' = [accounts EXCEPT ![accIndex].loginAttempts = failed]
                /\ UNCHANGED <<pc, accIndex, accFile>>
           ELSE /\ accounts' = [accounts EXCEPT ![accIndex].loginAttempts = failed,
                                                ![accIndex].locked = 1]
                /\ accFile' = saveAccounts(accounts')
                /\ pc' = "main"
                /\ accIndex' = NoIdx
    /\ UNCHANGED <<atm, atmFile, txnFile, w, writable, solve>>

\* one pass of the PIN loop, lines 306-324
LoginPin(pin) ==
    /\ pc = "pin"
    /\ LET acc == accounts[accIndex]
           failed == acc.loginAttempts + 1
       IN  IF pin = acc.pin
           THEN /\ accounts' = [accounts EXCEPT ![accIndex].loginAttempts = 0]
                /\ pc' = "user"
                /\ UNCHANGED <<accIndex, accFile>>
           ELSE IF AttemptsLeft(failed) > 0
           THEN /\ accounts' = [accounts EXCEPT ![accIndex].loginAttempts = failed]
                /\ UNCHANGED <<pc, accIndex, accFile>>
           ELSE /\ accounts' = [accounts EXCEPT ![accIndex].loginAttempts = failed,
                                                ![accIndex].locked = 1]
                /\ accFile' = saveAccounts(accounts')
                /\ pc' = "main"
                /\ accIndex' = NoIdx
    /\ UNCHANGED <<atm, atmFile, txnFile, w, writable, solve>>

-----------------------------------------------------------------------------
(* adminMenu, lines 481-544 *)

\* main menu choice 2 and the admin PIN, lines 482-487
AdminEnter(pin) ==
    /\ pc = "main"
    /\ pc' = IF pin # ADMIN_PIN THEN "main" ELSE "admin"
    /\ UNCHANGED <<accounts, atm, accFile, atmFile, txnFile, accIndex, w,
                   writable, solve>>

\* choices 1 and 3 (view the inventory, list the accounts) and any invalid
\* choice: they print and change nothing
AdminView ==
    /\ pc = "admin"
    /\ UNCHANGED vars

\* the test of line 507 with the test dropped (mutant of RefillRejected)
RefillRejectedNever(a, b, c, d) == FALSE

\* the test of line 507 looking at the first delta only (mutant of
\* RefillRejected)
RefillRejectedFirstOnly(a, b, c, d) == a < 0

\* line 507: if (a < 0 || b < 0 || c < 0 || d < 0)
RefillRejected(a, b, c, d) == a < 0 \/ b < 0 \/ c < 0 \/ d < 0

\* lines 510-513: the inventory after the refill
Refilled(inv, a, b, c, d) ==
    Inventory(inv.note2000 + a, inv.note500 + b, inv.note200 + c, inv.note100 + d)

\* the model keeps the inventory within its bound (and so far from INT_MAX)
WithinBounds(inv) ==
    inv.note2000 + inv.note500 + inv.note200 + inv.note100 <= MaxNotes

\* choice 2, lines 498-516
AdminRefill(a, b, c, d) ==
    /\ pc = "admin"
    /\ IF RefillRejected(a, b, c, d)
       THEN UNCHANGED <<atm, atmFile>>
       ELSE /\ WithinBounds(Refilled(atm, a, b, c, d))
            /\ atm' = Refilled(atm, a, b, c, d)
            /\ atmFile' = saveATM(atm')
    /\ UNCHANGED <<accounts, accFile, txnFile, pc, accIndex, w, writable, solve>>

\* choice 4, lines 526-537
AdminUnlock(accn) ==
    /\ pc = "admin"
    /\ LET idx == findAccountIndex(accn)
       IN  IF idx = NoIdx
           THEN UNCHANGED <<accounts, accFile>>
           ELSE /\ accounts' = [accounts EXCEPT ![idx].locked = 0,
                                                ![idx].loginAttempts = 0]
                /\ accFile' = saveAccounts(accounts')
    /\ UNCHANGED <<atm, atmFile, txnFile, pc, accIndex, w, writable, solve>>

\* choice 5, lines 538-539
AdminExit ==
    /\ pc = "admin"
    /\ pc' = "main"
    /\ UNCHANGED <<accounts, atm, accFile, atmFile, txnFile, accIndex, w,
                   writable, solve>>

-----------------------------------------------------------------------------
(* The user session: showBalance, withdrawCash, history, logout *)

\* showBalance, lines 329-333: prints the account and its balance
ShowBalance ==
    /\ pc = "user"
    /\ MayAppend
    /\ pc' = "inquiry"
    /\ UNCHANGED <<accounts, atm, accFile, atmFile, txnFile, accIndex, w,
                   writable, solve>>

\* the journal line of an inquiry with the balance forgotten (mutant of
\* InquiryLine)
InquiryLineNoBalance(acc) == TxnLine(acc.accountNumber, "Balance Inquiry", 0, 0)

\* lines 335-339: the record of the inquiry
InquiryLine(acc) ==
    TxnLine(acc.accountNumber, "Balance Inquiry", 0, acc.balance)

\* showBalance, lines 334-342: journals the inquiry and returns to the menu
ShowBalanceRecord ==
    /\ pc = "inquiry"
    /\ txnFile' = recordTransaction(InquiryLine(accounts[accIndex]))
    /\ pc' = "user"
    /\ UNCHANGED <<accounts, atm, accFile, atmFile, accIndex, w, writable,
                   solve>>

\* showTransactionHistory (choice 3) and any invalid choice: they print and
\* change nothing
ShowHistory ==
    /\ pc = "user"
    /\ UNCHANGED vars

\* choice 4, lines 588-590
Logout ==
    /\ pc = "user"
    /\ accFile' = saveAccounts(accounts)
    /\ pc' = "main"
    /\ accIndex' = NoIdx
    /\ UNCHANGED <<accounts, atm, atmFile, txnFile, w, writable, solve>>

\* (int)damount, lines 421 and 425.  A finite value in range is truncated
\* toward zero.  Out of the range of int, and for a NaN, the conversion is
\* undefined: the outcomes are those of the common targets (INT_MIN where
\* the conversion instruction returns the "indefinite" value, saturation to
\* INT_MAX or 0 for a NaN elsewhere).
IntOfDouble(d) ==
    CASE d.kind = "finite" -> {CDiv(d.v, 100)}
      [] d.kind = "nan" -> {IntMin, 0}
      [] d.kind = "huge" -> {IntMin, IntMax}

\* line 417: if (damount <= 0.0); a NaN compares false
NotPositive(d) == d.kind = "finite" /\ d.v <= 0

\* line 421: if (((int)damount) % 100 != 0)
NotMultiple(i) == CRem(i, 100) # 0

\* (int)(acc->balance + 0.0001) for a balance held in hundredths: the sum in
\* ten-thousandths, truncated toward zero
BalanceAsInt(balance) == CDiv(100 * balance + 1, 10000)

\* the balance test with the test dropped (mutant of InsufficientBalance)
InsufficientBalanceNever(amount, balance) == FALSE

\* line 426: if (amount > (int)(acc->balance + 0.0001))
InsufficientBalance(amount, balance) == amount > BalanceAsInt(balance)

\* lines 431-432: if (amount > atmTotal)
InsufficientCash(amount, inv) ==
    amount > NotesValue(inv.note2000, inv.note500, inv.note200, inv.note100)

\* lines 417-441: the message withdrawCash rejects the request with, or
\* "none" when it goes on to the confirmation prompt.  d is what was typed,
\* i the value of (int)damount, r the solver's answer
Rejection(d, i, balance, inv, r) ==
    IF NotPositive(d) THEN "Invalid amount. Must be > 0."
    ELSE IF NotMultiple(i) THEN "Amount must be a multiple of 100."
    ELSE IF InsufficientBalance(i, balance) THEN "Insufficient balance."
    ELSE IF InsufficientCash(i, inv) THEN "ATM does not have enough cash."
    ELSE IF r.possible = 0
    THEN "ATM cannot dispense the requested amount with available denominations."
    ELSE "none"

\* withdrawCash from its prompt to the confirmation prompt or to the message
\* it rejects the request with, lines 415-451.  p0 is what the
\* uninitialised local possible of line 436 holds.  The frame keeps what
\* the code has assigned when it stops: damount, then amount, then the
\* solver's figures.
WithdrawRequest(d, i, p0) ==
    /\ pc = "user"
    /\ MayAppend
    /\ LET r == calculateDenominations(i, atm, p0)
           why == Rejection(d, i, accounts[accIndex].balance, atm, r)
       IN  IF NotPositive(d) \/ NotMultiple(i)
           THEN /\ w' = [NoWithdrawal EXCEPT !.damount = d, !.reason = why]
                /\ pc' = "rejected"
           ELSE IF InsufficientBalance(i, accounts[accIndex].balance)
                   \/ InsufficientCash(i, atm)
           THEN /\ w' = [NoWithdrawal EXCEPT !.damount = d, !.amount = i,
                                             !.reason = why]
                /\ pc' = "rejected"
           ELSE /\ w' = [damount |-> d, amount |-> i, n2000 |-> r.n2000,
                         n500 |-> r.n500, n200 |-> r.n200, n100 |-> r.n100,
                         possible |-> r.possible, reason |-> why]
                /\ pc' = IF why = "none" THEN "confirm" ELSE "rejected"
    /\ UNCHANGED <<accounts, atm, accFile, atmFile, txnFile, accIndex,
                   writable, solve>>

\* the confirmation step that debits the account before it asks (mutant of
\* WithdrawConfirm)
WithdrawConfirmDebitFirst(confirm) ==
    /\ pc = "confirm"
    /\ accounts' = [accounts EXCEPT ![accIndex].balance = @ - 100 * w.amount]
    /\ IF confirm = 0
       THEN /\ pc' = "rejected"
            /\ w' = [w EXCEPT !.reason = "Withdrawal cancelled."]
       ELSE /\ pc' = "debit"
            /\ UNCHANGED w
    /\ UNCHANGED <<atm, accFile, atmFile, txnFile, accIndex, writable, solve>>

\* lines 451-455: the answer to the confirmation prompt
WithdrawConfirm(confirm) ==
    /\ pc = "confirm"
    /\ IF confirm = 0
       THEN /\ pc' = "rejected"
            /\ w' = [w EXCEPT !.reason = "Withdrawal cancelled."]
       ELSE /\ pc' = "debit"
            /\ UNCHANGED w
    /\ UNCHANGED <<accounts, atm, accFile, atmFile, txnFile, accIndex,
                   writable, solve>>

\* the return statements of lines 419, 423, 428, 434, 440 and 454: back to
\* the user menu with nothing done
WithdrawReturn ==
    /\ pc = "rejected"
    /\ pc' = "user"
    /\ w' = NoWithdrawal
    /\ UNCHANGED <<accounts, atm, accFile, atmFile, txnFile, accIndex,
                   writable, solve>>

\* the inventory debit that forgets the 100-notes (mutant of DebitNotes)
DebitNotesBut100(inv, f) ==
    Inventory(inv.note2000 - f.n2000, inv.note500 - f.n500,
              inv.note200 - f.n200, inv.note100)

\* lines 458-461
DebitNotes(inv, f) ==
    Inventory(inv.note2000 - f.n2000, inv.note500 - f.n500,
              inv.note200 - f.n200, inv.note100 - f.n100)

\* the debit of the account forgotten (mutant of DebitBalance)
DebitBalanceForgotten(balance, amount) == balance

\* line 457: acc->balance -= amount, the balance in hundredths
DebitBalance(balance, amount) == balance - 100 * amount

\* the debits followed at once by the two saves, ahead of the journal
\* append (mutant of WithdrawDebit)
WithdrawDebitAndSave ==
    /\ pc = "debit"
    /\ accounts' = [accounts EXCEPT
                       ![accIndex].balance = DebitBalance(@, w.amount)]
    /\ atm' = DebitNotes(atm, w)
    /\ accFile' = saveAccounts(accounts')
    /\ atmFile' = saveATM(atm')
    /\ pc' = "record"
    /\ UNCHANGED <<txnFile, accIndex, w, writable, solve>>

\* lines 456-461: deduct from account and ATM
WithdrawDebit ==
    /\ pc = "debit"
    /\ accounts' = [accounts EXCEPT
                       ![accIndex].balance = DebitBalance(@, w.amount)]
    /\ atm' = DebitNotes(atm, w)
    /\ pc' = "record"
    /\ UNCHANGED <<accFile, atmFile, txnFile, accIndex, w, writable, solve>>

\* lines 463-471: record the transaction
WithdrawRecord ==
    /\ pc = "record"
    /\ txnFile' = recordTransaction(
                     TxnLine(accounts[accIndex].accountNumber, "Withdrawal",
                             100 * w.amount, accounts[accIndex].balance))
    /\ pc' = "persist"
    /\ UNCHANGED <<accounts, atm, accFile, atmFile, accIndex, w, writable,
                   solve>>

\* the saves with saveATM forgotten (mutant of WithdrawPersist)
WithdrawPersistAccountsOnly ==
    /\ pc = "persist"
    /\ accFile' = saveAccounts(accounts)
    /\ pc' = "user"
    /\ w' = NoWithdrawal
    /\ UNCHANGED <<accounts, atm, atmFile, txnFile, accIndex, writable, solve>>

\* lines 473-477: persist changes, report, return to the user menu
WithdrawPersist ==
    /\ pc = "persist"
    /\ accFile' = saveAccounts(accounts)
    /\ atmFile' = saveATM(atm)
    /\ pc' = "user"
    /\ w' = NoWithdrawal
    /\ UNCHANGED <<accounts, atm, txnFile, accIndex, writable, solve>>

-----------------------------------------------------------------------------
(* main, lines 567-605 *)

\* choice 3, lines 598-601, and the end of the loop
MainExit ==
    /\ pc = "main"
    /\ accFile' = saveAccounts(accounts)
    /\ atmFile' = saveATM(atm)
    /\ pc' = "exit"
    /\ UNCHANGED <<accounts, atm, txnFile, accIndex, w, writable, solve>>

\* any other choice at the main menu, lines 602-603
MainInvalid ==
    /\ pc = "main"
    /\ UNCHANGED vars

Next ==
    \/ \E n \in AccNumInputs : LoginAccount(n)
    \/ \E p \in PinInputs : LoginPin(p)
    \/ \E p \in AdminPinInputs : AdminEnter(p)
    \/ AdminView
    \/ \E a, b, c, d \in RefillInputs : AdminRefill(a, b, c, d)
    \/ \E n \in AccNumInputs : AdminUnlock(n)
    \/ AdminExit
    \/ ShowBalance
    \/ ShowBalanceRecord
    \/ ShowHistory
    \/ Logout
    \/ \E d \in DAmountInputs : \E i \in IntOfDouble(d), p0 \in GarbageInts :
          WithdrawRequest(d, i, p0)
    \/ \E c \in {0, 1} : WithdrawConfirm(c)
    \/ WithdrawReturn
    \/ WithdrawDebit
    \/ WithdrawRecord
    \/ WithdrawPersist
    \/ MainExit
    \/ MainInvalid

Spec == Init /\ [][Next]_vars

-----------------------------------------------------------------------------
(* A single call of calculateDenominations on any amount and inventory *)

SolverAmounts ==
    {100 * k : k \in 0 .. MaxHundreds} \cup {-2300, -150, -100, 50, 150, 2350}

SolverInventories ==
    {Inventory(a, b, c, d) : a \in 0 .. MaxNotes, b \in 0 .. MaxNotes,
                             c \in 0 .. MaxNotes, d \in 0 .. MaxNotes}

\* the caller has set up the arguments; *possible holds garbage, which the
\* record of the call keeps as entry
SolverInit ==
    /\ accounts = InitAccounts
    /\ atm \in SolverInventories
    /\ accFile = AccountsText(InitAccounts)
    /\ atmFile = AtmText(atm)
    /\ txnFile = << >>
    /\ pc = "solver"
    /\ accIndex = NoIdx
    /\ w = NoWithdrawal
    /\ writable = TRUE
    /\ \E amount \in SolverAmounts, p0 \in GarbageInts :
          solve = [state |-> "called", amount |-> amount, entry |-> p0,
                   possible |-> p0,
                   n2000 |-> 0, n500 |-> 0, n200 |-> 0, n100 |-> 0]

\* the call returns: the five out-parameters are written
SolverCall ==
    /\ solve.state = "called"
    /\ LET r == calculateDenominations(solve.amount, atm, solve.possible)
       IN  solve' = [state |-> "returned", amount |-> solve.amount,
                     entry |-> solve.entry,
                     possible |-> r.possible, n2000 |-> r.n2000,
                     n500 |-> r.n500, n200 |-> r.n200, n100 |-> r.n100]
    /\ UNCHANGED <<accounts, atm, accFile, atmFile, txnFile, pc, accIndex, w,
                   writable>>

SolverSpec == SolverInit /\ [][SolverCall]_vars

-----------------------------------------------------------------------------
(* Properties *)

\* the pcs at which withdrawCash is running
InWithdrawal == {"confirm", "rejected", "debit", "record", "persist"}

\* C1: whenever calculateDenominations reports the amount as possible, the
\* plan it returns sums exactly to the amount, for every amount (negative
\* and non-multiples of 100 included) and every inventory.
C1_PlanSumsToAmount ==
    (solve.state = "returned" /\ solve.possible # 0)
        => NotesValue(solve.n2000, solve.n500, solve.n200, solve.n100)
               = solve.amount

\* 2300 against an inventory holding a 2000, a 200 and a 100 note is
\* reported possible
C1_Witness ==
    /\ solve.state = "returned"
    /\ solve.possible = 1
    /\ solve.amount = 2300
    /\ solve.n2000 = 1 /\ solve.n500 = 0 /\ solve.n200 = 1 /\ solve.n100 = 1

\* C2: for every non-negative amount and every inventory, each of the four
\* counts calculateDenominations returns lies between 0 and the inventory's
\* count of that denomination at the call.
C2_PlanWithinInventory ==
    (solve.state = "returned" /\ solve.amount >= 0)
        => /\ 0 <= solve.n2000 /\ solve.n2000 <= atm.note2000
           /\ 0 <= solve.n500 /\ solve.n500 <= atm.note500
           /\ 0 <= solve.n200 /\ solve.n200 <= atm.note200
           /\ 0 <= solve.n100 /\ solve.n100 <= atm.note100

\* 2000 with no 2000-note in the inventory: the cap of the first step acts
\* and the plan is four 500-notes, all there are
C2_Witness ==
    /\ solve.state = "returned"
    /\ solve.possible = 1
    /\ solve.amount = 2000
    /\ atm.note2000 = 0 /\ atm.note500 = 4
    /\ solve.n2000 = 0 /\ solve.n500 = 4

\* what a call of the solver returned, as the record calculateDenominations
\* yields
Returned ==
    [n2000 |-> solve.n2000, n500 |-> solve.n500, n200 |-> solve.n200,
     n100 |-> solve.n100, possible |-> solve.possible]

\* C11: a call of calculateDenominations returns the same plan and the same
\* verdict as a call on the same amount and inventory started with any
\* other value in *possible, zero or not.
C11_SameAnswerWhateverGarbage ==
    solve.state = "returned"
        => \A p0 \in GarbageInts :
               calculateDenominations(solve.amount, atm, p0) = Returned

\* 600 against one 500-note and three 200-notes: the greedy pass fails, so
\* the loops that read *possible are reached, here with a nonzero value in it
C11_Witness ==
    /\ solve.state = "returned"
    /\ solve.entry = 1
    /\ solve.amount = 600
    /\ atm = Inventory(0, 1, 3, 0)
    /\ solve.possible = 0

\* C3: while withdrawCash runs (and at the user menu), the only step that
\* changes a balance or the inventory is the debit of a confirmed
\* withdrawal, and that step takes exactly the amount from the session's
\* account, exactly the plan from the inventory, and nothing from any other
\* account: control is never back at the menu with one debit without the
\* other.
C3_DebitsTogether ==
    [][ (pc \in InWithdrawal \cup {"user"} /\ pc' \in InWithdrawal \cup {"user"})
          => IF pc = "debit"
             THEN /\ accounts'[accIndex].balance
                        = accounts[accIndex].balance - 100 * w.amount
                  /\ \A j \in AccIdx \ {accIndex} : accounts'[j] = accounts[j]
                  /\ atm'.note2000 = atm.note2000 - w.n2000
                  /\ atm'.note500 = atm.note500 - w.n500
                  /\ atm'.note200 = atm.note200 - w.n200
                  /\ atm'.note100 = atm.note100 - w.n100
                  /\ pc' = "record"
             ELSE /\ \A j \in AccIdx : accounts'[j].balance = accounts[j].balance
                  /\ atm' = atm
                  /\ (pc' = "user" => pc \in {"user", "rejected", "persist"})
      ]_vars

\* a withdrawal of 600 from 700.50 has been committed and control is back at
\* the user menu
C3_Witness ==
    /\ pc = "user"
    /\ accIndex = 0
    /\ accounts[0].balance = 10050
    /\ accounts[1].balance = 10000
    /\ Len(txnFile) = Len(OldJournal) + 1
    /\ txnFile[Len(txnFile)].type = "Withdrawal"
    /\ atmFile = AtmText(atm)

\* C4: a rejected withdrawal (amount not positive, not a multiple of 100,
\* above the balance, above the ATM's cash, infeasible, or declined at the
\* confirmation) leaves every balance, the inventory, the journal and both
\* persisted records as they were: no step from the request to the
\* rejection, nor the return that follows it, changes any of them.
C4_RejectionChangesNothing ==
    [][ (pc' \in {"confirm", "rejected"} \/ pc = "rejected")
          => UNCHANGED <<accounts, atm, txnFile, accFile, atmFile>> ]_vars

\* 600 asked of the account holding 100.00 is being rejected
C4_Witness ==
    /\ pc = "rejected"
    /\ w.reason = "Insufficient balance."
    /\ w.amount = 600
    /\ accounts[accIndex].balance = 10000

\* the amount typed, in hundredths, is a positive multiple of 100 rupees
\* that the balance covers
EnteredAmountValid(d, balance) ==
    /\ d.kind = "finite"
    /\ d.v > 0
    /\ d.v % 10000 = 0
    /\ d.v <= balance

\* C5: a request whose entered amount is not positive, not a multiple of
\* 100 or above the balance is rejected at validation, so that every
\* withdrawal that gets past it (and so every committed one) has an amount
\* that is a positive multiple of 100 and at most the balance.
C5_InvalidAmountRejected ==
    pc = "confirm"
        => /\ EnteredAmountValid(w.damount, accounts[accIndex].balance)
           /\ w.amount > 0
           /\ w.amount % 100 = 0
           /\ 100 * w.amount <= accounts[accIndex].balance

C7_BalancesNonNegative == \A i \in AccIdx : accounts[i].balance >= 0

\* the account holding 100.00 has withdrawn all of it
C7_Witness ==
    /\ pc = "user"
    /\ accIndex = 1
    /\ accounts[1].balance = 0
    /\ Len(txnFile) = Len(OldJournal) + 1
    /\ txnFile[Len(txnFile)].type = "Withdrawal"

\* some notes of the inventory sum exactly to the amount
SomeCombination(amount, inv) ==
    \E c2000 \in 0 .. inv.note2000, c500 \in 0 .. inv.note500,
       c200 \in 0 .. inv.note200, c100 \in 0 .. inv.note100 :
          NotesValue(c2000, c500, c200, c100) = amount

\* C8: when a withdrawal of a positive multiple of 100 within the ATM's
\* total cash is rejected as infeasible, no combination of the notes in the
\* inventory sums exactly to the amount.
C8_InfeasibleMeansNoCombination ==
    ( /\ pc = "rejected"
      /\ w.reason = "ATM cannot dispense the requested amount with available denominations."
      /\ w.amount > 0
      /\ w.amount % 100 = 0
      /\ ~InsufficientCash(w.amount, atm) )
        => ~SomeCombination(w.amount, atm)

\* a step that locks account i
Locks(i) == accounts[i].locked = 0 /\ accounts'[i].locked # 0

\* a step that grants a session on account i
GrantsSession(i) == pc \in {"main", "pin"} /\ pc' = "user" /\ accIndex' = i

\* what C9 says of the login steps, apart from the persistence of the lock:
\* the third wrong PIN locks the account, and a locked account stays locked
\* and is granted no session until the administrative unlock
LockedOut(i) ==
    /\ (pc = "pin" /\ accIndex = i /\ accounts'[i].loginAttempts >= LockThreshold)
          => (accounts'[i].locked # 0 /\ pc' = "main")
    /\ accounts[i].locked # 0
          => /\ ~GrantsSession(i)
             /\ ~(pc' = "pin" /\ accIndex' = i)
             /\ accounts'[i].locked # 0 \/ pc = "admin"

\* C9 as stated: after three wrong PINs the account is locked and the lock
\* is persisted, and from then on no login for it is granted until the
\* administrative unlock.
C9_LockedAndPersisted ==
    [][ \A i \in AccIdx :
          /\ LockedOut(i)
          /\ Locks(i) => accFile'[i].locked # 0 ]_vars

\* C9 as amended: the lock is persisted when the accounts file can be
\* opened for writing; when it cannot, the file is left as it was and the
\* lock holds in memory only.
C9_LockedAndPersistedIfWritable ==
    [][ \A i \in AccIdx :
          /\ LockedOut(i)
          /\ Locks(i) => IF writable THEN accFile' = AccountsText(accounts')
                                     ELSE accFile' = accFile ]_vars

\* account 1001 has been locked by three wrong PINs, the lock is in the
\* file, and the program is back at the main menu
C9_Witness ==
    /\ pc = "main"
    /\ accounts[0].locked = 1
    /\ accounts[0].loginAttempts = 3
    /\ accFile[0].locked = 1
    /\ accFile[0].loginAttempts = 3

\* C10: in every reachable state an account is locked if and only if its
\* failure counter has reached 3; the only step that unlocks a locked
\* account is the administrative unlock, and it resets the counter to 0.
C10_LockedIffThreeFailures ==
    [][ \A i \in AccIdx :
          /\ accounts[i].locked # 0 <=> accounts[i].loginAttempts >= LockThreshold
          /\ accounts'[i].locked # 0 <=> accounts'[i].loginAttempts >= LockThreshold
          /\ (accounts[i].locked # 0 /\ accounts'[i].locked = 0)
                => (pc = "admin" /\ pc' = "admin" /\ accounts'[i].loginAttempts = 0)
      ]_vars

\* account 1001 is locked with its counter at 3 while account 1002, with two
\* wrong PINs so far, is not
C10_Witness ==
    /\ accounts[0].locked = 1
    /\ accounts[0].loginAttempts = 3
    /\ pc = "pin"
    /\ accIndex = 1
    /\ accounts[1].locked = 0
    /\ accounts[1].loginAttempts = 2

\* s is t or an initial part of it
IsPrefix(s, t) ==
    /\ Len(s) <= Len(t)
    /\ \A k \in 1 .. Len(s) : s[k] = t[k]

\* the step appends one Withdrawal record for the session's account, with the
\* amount being withdrawn and the balance the account is left with
AppendsWithdrawal ==
    /\ Len(txnFile') = Len(txnFile) + 1
    /\ IsPrefix(txnFile, txnFile')
    /\ LET t == txnFile'[Len(txnFile')]
       IN  /\ t.accountNumber = accounts[accIndex].accountNumber
           /\ t.type = "Withdrawal"
           /\ Parse2(t.amount) = 100 * w.amount
           /\ Parse2(t.remainingBalance) = accounts'[accIndex].balance

\* the journal in the steps of a withdrawal other than its journal step, and
\* in every step of the program: nothing is appended during the request,
\* the confirmation, a rejection, the debits or the saves, and no step
\* removes or changes a record
JournalOtherwise ==
    /\ (pc \in {"confirm", "rejected", "debit", "persist"}
            \/ pc' \in {"confirm", "rejected"})
          => txnFile' = txnFile
    /\ IsPrefix(txnFile, txnFile')

\* C12 as stated: the journal step of every committed withdrawal appends
\* exactly one Withdrawal record with the account number, the amount and
\* the balance after the debit; no other step of a withdrawal, rejected,
\* declined or committed, appends one; and the journal only grows.
C12_WithdrawalJournalled ==
    [][ /\ pc = "record" => AppendsWithdrawal
        /\ JournalOtherwise ]_vars

\* C12 as amended: the record is appended when the journal can be opened for
\* appending; when it cannot, the journal is left as it was and the
\* withdrawal is committed without a record.
C12_WithdrawalJournalledIfWritable ==
    [][ /\ pc = "record" => IF writable THEN AppendsWithdrawal
                                         ELSE txnFile' = txnFile
        /\ JournalOtherwise ]_vars

\* the account holding 100.00 has withdrawn it: the journal is the earlier
\* run's record followed by the record of the withdrawal
C12_Witness ==
    /\ pc = "persist"
    /\ writable
    /\ txnFile = Append(OldJournal,
                        [accountNumber |-> 1002, type |-> "Withdrawal",
                         amount |-> [neg |-> FALSE, int |-> 100, frac |-> 0],
                         remainingBalance |-> [neg |-> FALSE, int |-> 0, frac |-> 0]])

\* a step that completes an operation changing the accounts: a lock, an
\* unlock, the end of a committed withdrawal
CompletesAccountsChange ==
    \/ \E i \in AccIdx : Locks(i)
    \/ pc = "admin" /\ accounts' # accounts
    \/ pc = "persist"

\* a step that completes an operation changing the inventory: a refill, the
\* end of a committed withdrawal
CompletesInventoryChange ==
    \/ pc = "admin" /\ atm' # atm
    \/ pc = "persist"

\* C13 as stated: when a lock, an unlock or a committed withdrawal
\* completes, the accounts file equals the accounts in memory; when a refill
\* or a committed withdrawal completes, the inventory file equals the
\* inventory in memory.
C13_PersistedAfterChange ==
    [][ /\ CompletesAccountsChange => accFile' = AccountsText(accounts')
        /\ CompletesInventoryChange => atmFile' = AtmText(atm') ]_vars

\* C13 as amended: so it is when the files can be opened for writing; when
\* they cannot, the files are left as they were and the change holds in
\* memory only.
C13_PersistedAfterChangeIfWritable ==
    [][ /\ CompletesAccountsChange
            => IF writable THEN accFile' = AccountsText(accounts')
                           ELSE accFile' = accFile
        /\ CompletesInventoryChange
            => IF writable THEN atmFile' = AtmText(atm')
                           ELSE atmFile' = atmFile ]_vars

\* after a refill of two 100-notes, a withdrawal of 100 from 700.50 has
\* completed, and both files hold what memory holds
C13_Witness ==
    /\ pc = "user"
    /\ writable
    /\ accounts[0].balance = 60050
    /\ atm = Inventory(0, 0, 0, 1)
    /\ accFile = AccountsText(accounts)
    /\ accFile[0].balance = [neg |-> FALSE, int |-> 600, frac |-> 50]
    /\ atmFile = << 0, 0, 0, 1 >>

AppendsInquiry ==
    /\ Len(txnFile') = Len(txnFile) + 1
    /\ IsPrefix(txnFile, txnFile')
    /\ LET t == txnFile'[Len(txnFile')]
       IN  /\ t.accountNumber = accounts[accIndex].accountNumber
           /\ t.type = "Balance Inquiry"
           /\ Parse2(t.amount) = 0
           /\ Parse2(t.remainingBalance) = accounts[accIndex].balance

\* C15 as stated: a balance inquiry changes no account (balance, lock,
\* failure counter) and no inventory count, and appends exactly one journal
\* record, of kind balance inquiry, with amount zero and the account's
\* current balance.
C15_InquiryOnlyJournals ==
    [][ /\ (pc = "inquiry" \/ pc' = "inquiry")
            => UNCHANGED <<accounts, atm, accFile, atmFile>>
        /\ pc' = "inquiry" => txnFile' = txnFile
        /\ pc = "inquiry" => AppendsInquiry ]_vars

\* C15 as amended: the record is appended when the journal can be opened for
\* appending; when it cannot, the inquiry changes nothing at all.
C15_InquiryOnlyJournalsIfWritable ==
    [][ /\ (pc = "inquiry" \/ pc' = "inquiry")
            => UNCHANGED <<accounts, atm, accFile, atmFile>>
        /\ pc' = "inquiry" => txnFile' = txnFile
        /\ pc = "inquiry" => IF writable THEN AppendsInquiry
                                          ELSE txnFile' = txnFile ]_vars

\* the holder of account 1002 has asked for the balance: the journal is the
\* earlier run's record followed by an inquiry showing 100.00
C15_Witness ==
    /\ pc = "user"
    /\ accIndex = 1
    /\ accounts = InitAccounts
    /\ txnFile = Append(OldJournal,
                        [accountNumber |-> 1002, type |-> "Balance Inquiry",
                         amount |-> [neg |-> FALSE, int |-> 0, frac |-> 0],
                         remainingBalance |-> [neg |-> FALSE, int |-> 100, frac |-> 0]])

Min(a, b) == IF a <= b THEN a ELSE b

\* the single descending greedy pass as the specification words it, for a
\* non-negative amount: for 2000, 500, 200, 100 in that order take
\* min(floor(remaining / denomination), available count)
DescendingGreedy(amount, inv) ==
    LET t2000 == Min(amount \div 2000, inv.note2000)
        a500 == amount - 2000 * t2000
        t500 == Min(a500 \div 500, inv.note500)
        a200 == a500 - 500 * t500
        t200 == Min(a200 \div 200, inv.note200)
        a100 == a200 - 200 * t200
        t100 == Min(a100 \div 100, inv.note100)
    IN  [n2000 |-> t2000, n500 |-> t500, n200 |-> t200, n100 |-> t100,
         remaining |-> a100 - 100 * t100]

\* C16: for a non-negative amount, whenever the descending greedy pass ends
\* with nothing remaining, calculateDenominations reports the amount
\* possible and returns exactly the greedy counts; and 2300 against
\* 10 x 2000, 20 x 500, 50 x 200, 100 x 100 yields 1, 0, 1, 1.
C16_GreedyPlanReturned ==
    /\ (solve.state = "returned" /\ solve.amount >= 0
            /\ DescendingGreedy(solve.amount, atm).remaining = 0)
         => LET g == DescendingGreedy(solve.amount, atm)
            IN  Returned = [n2000 |-> g.n2000, n500 |-> g.n500,
                            n200 |-> g.n200, n100 |-> g.n100, possible |-> 1]
    /\ \A p0 \in GarbageInts :
          calculateDenominations(2300, Inventory(10, 20, 50, 100), p0)
             = [n2000 |-> 1, n500 |-> 0, n200 |-> 1, n100 |-> 1, possible |-> 1]

\* 2300 against four notes of each denomination: the pass takes one 2000,
\* skips the 500s, takes one 200 and one 100, and that plan is returned
C16_Witness ==
    /\ solve.state = "returned"
    /\ solve.amount = 2300
    /\ atm = Inventory(4, 4, 4, 4)
    /\ Returned = [n2000 |-> 1, n500 |-> 0, n200 |-> 1, n100 |-> 1,
                   possible |-> 1]

\* the order of the steps of a withdrawal: request, confirmation, debits,
\* journal append, saves, and back to the menu
StepsInOrder ==
    /\ pc' = "confirm" => pc = "user"
    /\ pc' = "debit" => pc = "confirm"
    /\ pc' = "record" => pc = "debit"
    /\ pc' = "persist" => pc = "record"
    /\ pc = "debit" => pc' = "record"
    /\ pc = "record" => pc' = "persist"
    /\ pc = "persist" => pc' = "user"

\* what each step of a withdrawal may change: the balances and the
\* inventory change in the debit step only, the journal in the journal step
\* only, the two files in the save step only
EffectsInOrder ==
    (pc \in InWithdrawal \/ pc' \in InWithdrawal)
        => /\ pc # "debit" => UNCHANGED <<accounts, atm>>
           /\ pc # "record" => txnFile' = txnFile
           /\ pc # "persist" => UNCHANGED <<accFile, atmFile>>

\* the order of the tests of a request, read from its outcome: the cash
\* test is reached only by an amount that passed validation, the solver
\* only by one that passed the cash test as well, the confirmation prompt
\* only with the solver's plan
ChecksInOrder ==
    (pc = "user" /\ pc' \in {"rejected", "confirm"})
        => LET passedValidation ==
                   /\ ~NotPositive(w'.damount)
                   /\ ~NotMultiple(w'.amount)
                   /\ ~InsufficientBalance(w'.amount, accounts[accIndex].balance)
               solved ==
                   \E p0 \in GarbageInts :
                      calculateDenominations(w'.amount, atm, p0)
                         = [n2000 |-> w'.n2000, n500 |-> w'.n500,
                            n200 |-> w'.n200, n100 |-> w'.n100,
                            possible |-> w'.possible]
               notSolved ==
                   w'.n2000 = 0 /\ w'.n500 = 0 /\ w'.n200 = 0 /\ w'.n100 = 0
           IN  CASE w'.reason = "ATM does not have enough cash."
                      -> passedValidation /\ notSolved
                 [] w'.reason = "ATM cannot dispense the requested amount with available denominations."
                      -> /\ passedValidation
                         /\ ~InsufficientCash(w'.amount, atm)
                         /\ solved /\ w'.possible = 0
                 [] w'.reason = "none"
                      -> /\ pc' = "confirm"
                         /\ passedValidation
                         /\ ~InsufficientCash(w'.amount, atm)
                         /\ solved /\ w'.possible # 0
                 [] OTHER -> notSolved

\* C17: within every withdrawal the steps occur in the order validation,
\* total-cash check, solver, confirmation, debits, journal append, saves;
\* no balance or inventory change, journal append or save happens before
\* the confirmation.
C17_ProtocolOrder ==
    [][ StepsInOrder /\ EffectsInOrder /\ ChecksInOrder ]_vars

\* a confirmed withdrawal of 600 from 700.50 has applied its debits and has
\* not yet appended to the journal nor saved
C17_Witness ==
    /\ pc = "record"
    /\ w.amount = 600
    /\ accounts[0].balance = 10050
    /\ accFile[0].balance = [neg |-> FALSE, int |-> 700, frac |-> 50]
    /\ txnFile = OldJournal
    /\ atmFile # AtmText(atm)

\* the solver with the backtracking loops removed: the greedy counts, and
\* possible exactly when the pass left nothing
GreedyOnly(amount, inv) ==
    LET g == Greedy(amount, inv)
    IN  [n2000 |-> g.n2000, n500 |-> g.n500, n200 |-> g.n200, n100 |-> g.n100,
         possible |-> IF g.remaining = 0 THEN 1 ELSE 0]

\* C18: for a non-negative amount the backtracking loops accept no
\* candidate when the greedy pass has left a remainder, so the verdict and
\* the plan calculateDenominations returns are those of the greedy pass
\* alone.
C18_BacktrackingFindsNothing ==
    (solve.state = "returned" /\ solve.amount >= 0)
        => /\ Returned = GreedyOnly(solve.amount, atm)
           /\ Greedy(solve.amount, atm).remaining # 0
                 => BacktrackHits(solve.amount, atm, Greedy(solve.amount, atm)) = {}

\* 600 against one 500-note and three 200-notes, entered with *possible
\* zero: the loops run, find nothing although 3 x 200 is there, and the
\* greedy counts come back with the verdict not possible
C18_Witness ==
    /\ solve.state = "returned"
    /\ solve.entry = 0
    /\ solve.amount = 600
    /\ atm = Inventory(0, 1, 3, 0)
    /\ Returned = [n2000 |-> 0, n500 |-> 1, n200 |-> 0, n100 |-> 0,
                   possible |-> 0]

\* the sum of all balances, in hundredths
SumBalances(accs) == accs[0].balance + accs[1].balance

\* the cash value of the inventory, in hundredths
CashValue(inv) ==
    100 * NotesValue(inv.note2000, inv.note500, inv.note200, inv.note100)

\* what an accepted refill does to the two sums: the cash value rises by the
\* value of the notes added, the balances stay
RefillAddsItsValue ==
    (pc = "admin" /\ pc' = "admin" /\ vars' # vars)
        => \A a, b, c, d \in RefillInputs :
              (AdminRefill(a, b, c, d) /\ a >= 0 /\ b >= 0 /\ c >= 0 /\ d >= 0)
                 => /\ CashValue(atm') = CashValue(atm) + 100 * NotesValue(a, b, c, d)
                    /\ SumBalances(accounts') = SumBalances(accounts)

InSession == {"user", "inquiry"} \cup InWithdrawal

\* C20: while a user session is active its account is an existing one,
\* unlocked, with failure counter 0; a session begins only at the PIN
\* prompt of that account, which only an unlocked account reaches, and
\* serves the same account until it ends.
C20_SessionAccountUnlocked ==
    [][ /\ pc \in InSession
            => /\ accIndex \in AccIdx
               /\ accounts[accIndex].locked = 0
               /\ accounts[accIndex].loginAttempts = 0
        /\ pc' \in InSession
            => /\ accIndex' \in AccIdx
               /\ accounts'[accIndex'].locked = 0
               /\ accounts'[accIndex'].loginAttempts = 0
        /\ (pc \notin InSession /\ pc' \in InSession)
            => /\ pc = "pin"
               /\ accIndex' = accIndex
               /\ accounts[accIndex].locked = 0
        /\ (pc \in InSession /\ pc' \in InSession) => accIndex' = accIndex
      ]_vars

\* account 1002 is at the confirmation prompt of a withdrawal, unlocked with
\* counter 0, while account 1001 has been locked out
C20_Witness ==
    /\ pc = "confirm"
    /\ accIndex = 1
    /\ accounts[1].locked = 0
    /\ accounts[1].loginAttempts = 0
    /\ accounts[0].locked = 1

\* the PIN entries made so far in the login in progress: login is entered
\* with the counter at 0 and every wrong entry raises it by one
EntriesSoFar == accounts[accIndex].loginAttempts

\* C21: a login on an existing unlocked account starts its PIN loop with the
\* failure counter at 0; every PIN entry either succeeds, resetting the
\* counter to 0, or is one of at most two wrong entries after which the
\* loop asks again, or is the third wrong entry, which ends the login with
\* the account locked and its counter at 3.  The login never goes back to
\* the main menu leaving the account unlocked.
C21_LoginEndsWithinThreeEntries ==
    [][ /\ (pc = "main" /\ pc' = "pin")
            => /\ accIndex' \in AccIdx
               /\ accounts'[accIndex'].locked = 0
               /\ accounts'[accIndex'].loginAttempts = 0
        /\ pc = "pin"
            => /\ EntriesSoFar < LockThreshold
               /\ \/ /\ pc' = "user"
                     /\ accIndex' = accIndex
                     /\ accounts'[accIndex].loginAttempts = 0
                     /\ accounts'[accIndex].locked = 0
                  \/ /\ pc' = "pin"
                     /\ accIndex' = accIndex
                     /\ accounts'[accIndex].loginAttempts = EntriesSoFar + 1
                     /\ accounts'[accIndex].loginAttempts < LockThreshold
                     /\ accounts'[accIndex].locked = 0
                  \/ /\ pc' = "main"
                     /\ EntriesSoFar = LockThreshold - 1
                     /\ accounts'[accIndex].loginAttempts = LockThreshold
                     /\ accounts'[accIndex].locked # 0
      ]_vars

\* account 1002 is at its third PIN prompt after two wrong entries, with
\* account 1001 untouched
C21_Witness ==
    /\ pc = "pin"
    /\ accIndex = 1
    /\ accounts[1].loginAttempts = 2
    /\ accounts[1].locked = 0
    /\ accounts[0].loginAttempts = 0
    /\ accounts[0].locked = 0

=============================================================================
